---- MODULE Spec2Model ----
(***************************************************************************)
(* Model of the itsl VS Code extension (src/extension.js): root location, *)
(* project discovery, the recency-ranked picker and the four commands.    *)
(*                                                                         *)
(* Strings are sequences of one-character strings, so that startsWith,    *)
(* replace and localeCompare are computed and not assumed.  A directory   *)
(* is the sequence of its path segments; <<>> is the filesystem root.     *)
(* An optional value is <<>> (undefined) or <<v>>.                        *)
(***************************************************************************)
EXTENDS Naturals, Sequences, FiniteSets, TLC

VARIABLES fs, workspaceFolders, workspaceState, run, walk, scan

vars == <<fs, workspaceFolders, workspaceState, run, walk, scan>>

(***************************************************************************)
(* Bounds of the model.                                                    *)
(***************************************************************************)
\* depth of the deepest directory of the root-location trees
MaxDepth == 2
\* number of source package directories of the discovery trees
MaxPackages == 2
\* number of command invocations that may be in progress at once
MaxRuns == 1

(***************************************************************************)
(* Program constants.                                                      *)
(***************************************************************************)
PROJECT_NAME == <<"i","t","s","l","e","a","r","n","i","n","g","-","u","i">>

ITSL_PREFIX == <<"@","i","t","s","-","u","i","/">>

RECENT_KEY == "itsl.recentProjects"

HistoryCap == 3

Undefined == <<>>

Some(v) == <<v>>

(***************************************************************************)
(* String helpers, as the JavaScript built-ins compute them.               *)
(***************************************************************************)
\* String.prototype.startsWith
startsWith(s, p) ==
    /\ Len(p) <= Len(s)
    /\ SubSeq(s, 1, Len(p)) = p

\* whether p occurs in s at position k (1-based)
OccursAt(s, p, k) ==
    /\ k >= 1
    /\ k + Len(p) - 1 <= Len(s)
    /\ SubSeq(s, k, k + Len(p) - 1) = p

\* String.prototype.indexOf, 1-based; 0 when p does not occur
indexOf(s, p) ==
    IF \E k \in 1..(Len(s) + 1) : OccursAt(s, p, k)
    THEN CHOOSE k \in 1..(Len(s) + 1) :
            /\ OccursAt(s, p, k)
            /\ \A j \in 1..(k - 1) : ~OccursAt(s, p, j)
    ELSE 0

\* String.prototype.includes
includes(s, p) == indexOf(s, p) # 0

\* String.prototype.replace with a string pattern: the first occurrence only
replace(s, p, r) ==
    LET k == indexOf(s, p)
    IN  IF k = 0 THEN s
        ELSE SubSeq(s, 1, k - 1) \o r \o SubSeq(s, k + Len(p), Len(s))

\* the characters of the modelled names in root collation order
\* (punctuation before letters, "-" before "@" before "/")
Collation ==
    <<"-", "@", "/", "a", "b", "c", "d", "e", "g", "i", "l", "n", "r", "s", "t", "u", "x">>

CollationRank(c) == CHOOSE k \in 1..Len(Collation) : Collation[k] = c

RECURSIVE localeCompare(_, _)
\* String.prototype.localeCompare: 0 less, 1 equal, 2 greater
localeCompare(a, b) ==
    IF a = <<>> /\ b = <<>> THEN 1
    ELSE IF a = <<>> THEN 0
    ELSE IF b = <<>> THEN 2
    ELSE IF CollationRank(Head(a)) < CollationRank(Head(b)) THEN 0
    ELSE IF CollationRank(Head(a)) > CollationRank(Head(b)) THEN 2
    ELSE localeCompare(Tail(a), Tail(b))

(***************************************************************************)
(* The filesystem: a function from the directories that hold a            *)
(* package.json to the file's content.                                     *)
(***************************************************************************)
\* path.dirname: the parent, and the filesystem root for the root
dirname(dir) == IF dir = <<>> THEN dir ELSE SubSeq(dir, 1, Len(dir) - 1)

\* fs.existsSync(path.join(dir, 'package.json'))
existsSync(f, dir) == dir \in DOMAIN f

Unreadable == [kind |-> "unreadable", name |-> Undefined, build |-> FALSE]

Malformed == [kind |-> "malformed", name |-> Undefined, build |-> FALSE]

Manifest(name, build) == [kind |-> "object", name |-> name, build |-> build]

\* JSON.parse(fs.readFileSync(file, 'utf8')) throws unless the file reads and parses
readThrows(f, dir) == f[dir].kind # "object"

\* IsMarkerManifest with a catch that takes the unparsed manifest for the marker
IsMarkerManifestStopOnError(f, dir) ==
    /\ existsSync(f, dir)
    /\ \/ readThrows(f, dir)
       \/ f[dir].name = Some(PROJECT_NAME)

\* lines 24-34: the manifest of dir exists, parses and declares the marker name
IsMarkerManifest(f, dir) ==
    /\ existsSync(f, dir)
    /\ ~readThrows(f, dir)
    /\ f[dir].name = Some(PROJECT_NAME)

\* one iteration of the loop of findProjectRoot, lines 23-42
WalkStep(f, dir) ==
    IF IsMarkerManifest(f, dir)
    THEN [done |-> TRUE, result |-> Some(dir), dir |-> dir]
    ELSE IF dirname(dir) = dir
    THEN [done |-> TRUE, result |-> Undefined, dir |-> dir]
    ELSE [done |-> FALSE, result |-> Undefined, dir |-> dirname(dir)]

RECURSIVE WalkFrom(_, _)
WalkFrom(f, dir) ==
    LET s == WalkStep(f, dir)
    IN  IF s.done THEN s.result ELSE WalkFrom(f, s.dir)

\* findProjectRoot(): Undefined or Some(root)
findProjectRoot(f, wf) ==
    IF Len(wf) = 0 THEN Undefined ELSE WalkFrom(f, wf[1])

(***************************************************************************)
(* The workspace state: a function from the keys that were stored to      *)
(* their values.                                                           *)
(***************************************************************************)
\* the workspace state of a workspace in which nothing was stored yet
NoState == [k \in {} |-> <<>>]

\* Memento.get(key, defaultValue)
get(ws, key, defaultValue) == IF key \in DOMAIN ws THEN ws[key] ELSE defaultValue

\* the state after Memento.update(key, value) took effect
update(ws, key, value) ==
    [k \in DOMAIN ws \cup {key} |-> IF k = key THEN value ELSE ws[k]]

(***************************************************************************)
(* Root location, step by step, over every tree of a bounded chain.        *)
(***************************************************************************)
Segment(k) == <<"d1", "d2", "d3", "d4">>[k]

ChainDir(n) == [k \in 1..n |-> Segment(k)]

ChainDirs == {ChainDir(n) : n \in 0..MaxDepth}

OtherName == <<"x">>

ChainContents ==
    {Unreadable, Malformed, Manifest(Undefined, FALSE),
     Manifest(Some(OtherName), FALSE), Manifest(Some(PROJECT_NAME), FALSE)}

ChainTrees == UNION {[D -> ChainContents] : D \in SUBSET ChainDirs}

WalkIdle == [pc |-> "idle", dir |-> <<>>, result |-> Undefined]

NoScan == [pc |-> "idle", result |-> <<>>, sorted |-> <<>>]

InitRoot ==
    /\ fs \in ChainTrees
    /\ workspaceFolders \in {<<>>} \cup {<<d>> : d \in ChainDirs}
    /\ workspaceState = NoState
    /\ run = <<>>
    /\ walk = WalkIdle
    /\ scan = NoScan

\* lines 15-20
RootEnter ==
    /\ walk.pc = "idle"
    /\ walk' = IF Len(workspaceFolders) = 0
               THEN [pc |-> "done", dir |-> <<>>, result |-> Undefined]
               ELSE [pc |-> "loop", dir |-> workspaceFolders[1], result |-> Undefined]
    /\ UNCHANGED <<fs, workspaceFolders, workspaceState, run, scan>>

\* lines 23-42, one iteration
RootIterate ==
    /\ walk.pc = "loop"
    /\ LET s == WalkStep(fs, walk.dir)
       IN  walk' = [pc |-> IF s.done THEN "done" ELSE "loop",
                    dir |-> s.dir, result |-> s.result]
    /\ UNCHANGED <<fs, workspaceFolders, workspaceState, run, scan>>

NextRoot == RootEnter \/ RootIterate

SpecRoot == InitRoot /\ [][NextRoot]_vars

(***************************************************************************)
(* C5: root location finds the nearest marker manifest.                    *)
(***************************************************************************)
\* the directory and its ancestors, up to the filesystem root
SelfAndAncestors(dir) == {SubSeq(dir, 1, n) : n \in 0..Len(dir)}

\* the manifest of d exists, parses and declares the marker name
CarriesMarker(f, d) ==
    /\ d \in DOMAIN f
    /\ f[d].kind = "object"
    /\ f[d].name = <<PROJECT_NAME>>

\* the nearest directory among start and its ancestors that carries the
\* marker, or Undefined when none does
NearestMarker(f, start) ==
    LET C == {d \in SelfAndAncestors(start) : CarriesMarker(f, d)}
    IN  IF C = {} THEN Undefined
        ELSE <<CHOOSE d \in C : \A e \in C : Len(e) <= Len(d)>>

\* C5: for every tree and start directory, findProjectRoot returns the
\* nearest directory among the start directory and its ancestors whose
\* manifest exists, parses and declares the marker name, and undefined
\* exactly when there is none; the ascent passes every missing, malformed
\* or differently-named manifest and gives up only at the filesystem root.
C5_NearestRoot ==
    /\ Len(workspaceFolders) > 0 =>
          findProjectRoot(fs, workspaceFolders) = NearestMarker(fs, workspaceFolders[1])
    /\ (walk.pc = "done" /\ Len(workspaceFolders) > 0) =>
          /\ walk.result = NearestMarker(fs, workspaceFolders[1])
          /\ walk.result = Undefined => walk.dir = <<>>
    /\ walk.pc = "loop" =>
          \A d \in SelfAndAncestors(workspaceFolders[1]) :
              Len(d) > Len(walk.dir) => ~CarriesMarker(fs, d)

\* the walk started below a malformed manifest and a differently-named one
\* and returned the marker directory above them
C5_Witness ==
    /\ walk.pc = "done"
    /\ workspaceFolders = <<ChainDir(2)>>
    /\ walk.result = Some(<<>>)
    /\ ChainDir(2) \in DOMAIN fs /\ fs[ChainDir(2)] = Malformed
    /\ ChainDir(1) \in DOMAIN fs /\ fs[ChainDir(1)] = Manifest(Some(OtherName), FALSE)

(***************************************************************************)
(* Project discovery.                                                      *)
(***************************************************************************)
\* the ignore patterns of line 55, as the directory names they exclude
IgnoredSegments == {"node_modules", "dist"}

\* the path of dir relative to root
relative(dir, root) == SubSeq(dir, Len(root) + 1, Len(dir))

\* lines 51-56: the directories under root whose package.json the glob
\* returns: none below a node_modules or dist directory of the root
globSync(f, root) ==
    {d \in DOMAIN f :
        /\ startsWith(d, root)
        /\ \A k \in 1..Len(relative(d, root)) : relative(d, root)[k] \notin IgnoredSegments}

RECURSIVE SetToSeq(_)
\* the order in which the glob lists the files of a tree: fixed for a tree
SetToSeq(S) ==
    IF S = {} THEN <<>>
    ELSE LET x == CHOOSE y \in S : TRUE
         IN  <<x>> \o SetToSeq(S \ {x})

\* lines 61-73: the entries one file adds to the result
ProjectOf(f, file) ==
    IF readThrows(f, file) THEN <<>>
    ELSE IF f[file].name = Undefined THEN <<>>
    ELSE IF f[file].name[1] = <<>> \/ ~startsWith(f[file].name[1], ITSL_PREFIX) THEN <<>>
    ELSE <<[packageName |-> f[file].name[1], hasBuildScript |-> f[file].build]>>

RECURSIVE ScanFiles(_, _)
\* lines 58-76: the loop over the files
ScanFiles(f, files) ==
    IF files = <<>> THEN <<>>
    ELSE ProjectOf(f, Head(files)) \o ScanFiles(f, Tail(files))

\* getProjects(root)
getProjects(f, root) == ScanFiles(f, SetToSeq(globSync(f, root)))

(***************************************************************************)
(* The picker's list.                                                      *)
(***************************************************************************)
\* lines 91-94: the shortName of a package name
shortNameOf(packageName) == replace(packageName, ITSL_PREFIX, <<>>)

\* lines 91-94
toPickable(p) == [packageName |-> p.packageName, shortName |-> shortNameOf(p.packageName)]

RECURSIVE insertByShortName(_, _)
\* x goes behind every element that does not compare greater than it
insertByShortName(x, s) ==
    IF s = <<>> THEN <<x>>
    ELSE IF localeCompare(x.shortName, Head(s).shortName) = 0
    THEN <<x>> \o s
    ELSE <<Head(s)>> \o insertByShortName(x, Tail(s))

RECURSIVE sortByShortName(_)
\* line 95: Array.prototype.sort is stable
sortByShortName(s) ==
    IF s = <<>> THEN <<>>
    ELSE insertByShortName(s[Len(s)], sortByShortName(SubSeq(s, 1, Len(s) - 1)))

\* lines 90-95
sortedOf(projects) == sortByShortName([k \in 1..Len(projects) |-> toPickable(projects[k])])

(***************************************************************************)
(* Discovery and the picker's names over every tree of a bounded set of    *)
(* package directories.                                                    *)
(***************************************************************************)
Repo == <<"repo">>

PackageSegment(k) == <<"p1", "p2", "p3", "p4">>[k]

PackageDir(k) == Repo \o <<"packages", PackageSegment(k)>>

\* a dependency's manifest, and a build output's
DependencyDir == Repo \o <<"node_modules", "m">>

OutputDir == PackageDir(1) \o <<"dist">>

DiscoverDirs == {PackageDir(k) : k \in 1..MaxPackages} \cup {DependencyDir, OutputDir}

NameA == ITSL_PREFIX \o <<"a">>

NameB == ITSL_PREFIX \o <<"b">>

NameC == ITSL_PREFIX \o <<"c">>

NameD == ITSL_PREFIX \o <<"d">>

\* a name that is the prefix and nothing else, and one that repeats it
NameBare == ITSL_PREFIX

NameNested == ITSL_PREFIX \o ITSL_PREFIX \o <<"a">>

DiscoverContents ==
    {Malformed, Manifest(Undefined, TRUE), Manifest(Some(<<"a">>), TRUE),
     Manifest(Some(NameA), TRUE), Manifest(Some(NameA), FALSE),
     Manifest(Some(NameB), TRUE), Manifest(Some(NameBare), FALSE),
     Manifest(Some(NameNested), FALSE)}

RootManifest == Manifest(Some(PROJECT_NAME), FALSE)

InitDiscover ==
    /\ fs \in UNION {{[d \in D \cup {Repo} |-> IF d = Repo THEN RootManifest ELSE g[d]] :
                        g \in [D -> DiscoverContents]} : D \in SUBSET DiscoverDirs}
    /\ workspaceFolders = <<Repo>>
    /\ workspaceState = NoState
    /\ run = <<>>
    /\ walk = WalkIdle
    /\ scan = NoScan

\* getProjects(root) for the root the workspace folder leads to
Discover ==
    /\ scan.pc = "idle"
    /\ findProjectRoot(fs, workspaceFolders) # Undefined
    /\ scan' = [pc |-> "scanned",
                result |-> getProjects(fs, findProjectRoot(fs, workspaceFolders)[1]),
                sorted |-> <<>>]
    /\ UNCHANGED <<fs, workspaceFolders, workspaceState, run, walk>>

\* lines 90-95 on the discovered list
SortDiscovered ==
    /\ scan.pc = "scanned"
    /\ scan' = [scan EXCEPT !.pc = "sorted", !.sorted = sortedOf(scan.result)]
    /\ UNCHANGED <<fs, workspaceFolders, workspaceState, run, walk>>

NextDiscover == Discover \/ SortDiscovered

SpecDiscover == InitDiscover /\ [][NextDiscover]_vars

\* C4: getProjects never returns two entries with the same packageName.
C4_NoDuplicateNames ==
    scan.pc # "idle" =>
        \A i, j \in 1..Len(scan.result) :
            scan.result[i].packageName = scan.result[j].packageName => i = j

\* C7: the shortName of every eligible project is not empty and does not
\* contain the reserved prefix.
C7_ShortNameClean ==
    scan.pc = "sorted" =>
        \A k \in 1..Len(scan.sorted) :
            /\ scan.sorted[k].shortName # <<>>
            /\ ~includes(scan.sorted[k].shortName, ITSL_PREFIX)

(***************************************************************************)
(* pickProject.                                                            *)
(***************************************************************************)
RecentLabel == <<"R", "e", "c", "e", "n", "t">>

AllProjectsLabel == <<"A", "l", "l", " ", "p", "r", "o", "j", "e", "c", "t", "s">>

\* a QuickPickItemKind.Separator item
Separator(label) == [label |-> label, description |-> Undefined, kind |-> "Separator"]

\* lines 108 and 114
ItemOf(p) == [label |-> p.shortName, description |-> Some(p.packageName), kind |-> "Default"]

RECURSIVE find(_, _)
\* line 99: sorted.find(p => p.packageName === name), <<>> or <<p>>
find(sorted, name) ==
    IF sorted = <<>> THEN Undefined
    ELSE IF Head(sorted).packageName = name THEN Some(Head(sorted))
    ELSE find(Tail(sorted), name)

RECURSIVE recentItemsOf(_, _)
\* lines 98-100: the history entries that resolve, in history order
recentItemsOf(sorted, recentKeys) ==
    IF recentKeys = <<>> THEN <<>>
    ELSE find(sorted, Head(recentKeys)) \o recentItemsOf(sorted, Tail(recentKeys))

\* itemsOf without the test of line 105: the headers are always pushed
itemsOfAlwaysHeaders(sorted, recentItems) ==
    <<Separator(RecentLabel)>>
    \o [k \in 1..Len(recentItems) |-> ItemOf(recentItems[k])]
    \o <<Separator(AllProjectsLabel)>>
    \o [k \in 1..Len(sorted) |-> ItemOf(sorted[k])]

\* lines 103-115
itemsOf(sorted, recentItems) ==
    (IF Len(recentItems) > 0
     THEN <<Separator(RecentLabel)>>
          \o [k \in 1..Len(recentItems) |-> ItemOf(recentItems[k])]
          \o <<Separator(AllProjectsLabel)>>
     ELSE <<>>)
    \o [k \in 1..Len(sorted) |-> ItemOf(sorted[k])]

\* slice that cuts nothing
sliceKeepsAll(s, n) == s

\* Array.prototype.slice(0, n)
slice(s, n) == SubSeq(s, 1, IF Len(s) < n THEN Len(s) ELSE n)

\* updatedRecentOf without the filter: an earlier occurrence stays
updatedRecentNoFilter(packageName, recentKeys) ==
    slice(<<packageName>> \o recentKeys, HistoryCap)

\* line 123
updatedRecentOf(packageName, recentKeys) ==
    slice(<<packageName>> \o SelectSeq(recentKeys, LAMBDA n : n # packageName), HistoryCap)

(***************************************************************************)
(* The commands.  A run is one invocation of a command handler; its pc is  *)
(* the await it is suspended at.  A local that is not read again is reset  *)
(* to Undefined.                                                           *)
(***************************************************************************)
NoRun ==
    [pc |-> "idle", cmd |-> "none", root |-> Undefined, projects |-> Undefined,
     recentKeys |-> Undefined, items |-> Undefined, picked |-> Undefined,
     updatedRecent |-> Undefined, returned |-> Undefined, messages |-> <<>>,
     terminals |-> <<>>]

NotInsideMessage ==
    [kind |-> "error",
     text |-> "Not inside an itslearning-ui project. Open a folder within the project and try again.",
     arg |-> Undefined]

FoundMessage(root) ==
    [kind |-> "information", text |-> "itslearning-ui project found at: ", arg |-> Some(root)]

NoBuildableMessage ==
    [kind |-> "warning", text |-> "No buildable projects found in the monorepo.", arg |-> Undefined]

NoProjectsMessage ==
    [kind |-> "warning", text |-> "No projects found in the monorepo.", arg |-> Undefined]

\* createTerminal({name, cwd}), show(), sendText(text)
Terminal(name, nameArg, cwd, text, textArg, textEnd) ==
    [name |-> name, nameArg |-> nameArg, cwd |-> cwd,
     text |-> text, textArg |-> textArg, textEnd |-> textEnd]

FastbuildTerminal(root) ==
    Terminal("ITSL: Fastbuild", <<>>, root, "yarn fastbuild:all", <<>>, "")

BuildTerminal(root, picked) ==
    Terminal("ITSL: Build ", picked.shortName, root,
             "yarn workspace ", picked.packageName, " build")

TermsTerminal(root, picked) ==
    Terminal("ITSL: Terms ", picked.shortName, root,
             "yarn terms ", picked.shortName, " -v")

History == get(workspaceState, RECENT_KEY, <<>>)

\* lines 136-143
checkRun(f, wf) ==
    LET root == findProjectRoot(f, wf)
    IN  [NoRun EXCEPT !.cmd = "check", !.root = root,
            !.messages = IF root # Undefined
                         THEN <<FoundMessage(root[1])>>
                         ELSE <<NotInsideMessage>>]

\* fastbuildRun without the return of line 151
fastbuildRunNoReturn(f, wf) ==
    LET root == findProjectRoot(f, wf)
    IN  IF root = Undefined
        THEN [NoRun EXCEPT !.cmd = "fastbuild", !.messages = <<NotInsideMessage>>,
                 !.terminals = <<FastbuildTerminal(<<>>)>>]
        ELSE [NoRun EXCEPT !.cmd = "fastbuild", !.root = root,
                 !.terminals = <<FastbuildTerminal(root[1])>>]

\* lines 147-156
fastbuildRun(f, wf) ==
    LET root == findProjectRoot(f, wf)
    IN  IF root = Undefined
        THEN [NoRun EXCEPT !.cmd = "fastbuild", !.messages = <<NotInsideMessage>>]
        ELSE [NoRun EXCEPT !.cmd = "fastbuild", !.root = root,
                 !.terminals = <<FastbuildTerminal(root[1])>>]

\* pickProject up to the await of line 117
pickProjectStart(r, ws, projects) ==
    LET sorted == sortedOf(projects)
        recentKeys == get(ws, RECENT_KEY, <<>>)
    IN  [r EXCEPT !.pc = "picking", !.recentKeys = Some(recentKeys),
            !.items = Some(itemsOf(sorted, recentItemsOf(sorted, recentKeys)))]

\* lines 160-173, up to the await inside pickProject
buildAppStart(f, wf, ws) ==
    LET root == findProjectRoot(f, wf)
        projects == SelectSeq(getProjects(f, root[1]), LAMBDA p : p.hasBuildScript)
    IN  IF root = Undefined
        THEN [NoRun EXCEPT !.cmd = "buildApp", !.messages = <<NotInsideMessage>>]
        ELSE IF Len(projects) = 0
        THEN [NoRun EXCEPT !.cmd = "buildApp", !.root = root, !.projects = Some(projects),
                 !.messages = <<NoBuildableMessage>>]
        ELSE pickProjectStart(
                 [NoRun EXCEPT !.cmd = "buildApp", !.root = root, !.projects = Some(projects)],
                 ws, projects)

\* lines 183-196, up to the await inside pickProject
extractTermsStart(f, wf, ws) ==
    LET root == findProjectRoot(f, wf)
        projects == getProjects(f, root[1])
    IN  IF root = Undefined
        THEN [NoRun EXCEPT !.cmd = "extractTerms", !.messages = <<NotInsideMessage>>]
        ELSE IF Len(projects) = 0
        THEN [NoRun EXCEPT !.cmd = "extractTerms", !.root = root, !.projects = Some(projects),
                 !.messages = <<NoProjectsMessage>>]
        ELSE pickProjectStart(
                 [NoRun EXCEPT !.cmd = "extractTerms", !.root = root, !.projects = Some(projects)],
                 ws, projects)

\* lines 122-124, up to the await of the update
pickProjectSelect(r, item) ==
    [r EXCEPT !.pc = "updating", !.picked = Some(item),
        !.updatedRecent = Some(updatedRecentOf(item.description[1], r.recentKeys[1])),
        !.recentKeys = Undefined, !.items = Undefined]

\* lines 118-120 and the caller's line 174 or 197
pickProjectCancel(r) ==
    [r EXCEPT !.pc = "idle", !.recentKeys = Undefined, !.items = Undefined]

\* line 126, and the caller's lines 174-178 or 197-201
resumeRun(r) ==
    LET picked == [packageName |-> r.picked[1].description[1], shortName |-> r.picked[1].label]
    IN  [r EXCEPT !.pc = "idle", !.returned = Some(picked), !.picked = Undefined,
            !.terminals = @ \o <<IF r.cmd = "buildApp"
                                 THEN BuildTerminal(r.root[1], picked)
                                 ELSE TermsTerminal(r.root[1], picked)>>]

Check(i) ==
    /\ run[i].pc = "idle"
    /\ run' = [run EXCEPT ![i] = checkRun(fs, workspaceFolders)]
    /\ UNCHANGED <<fs, workspaceFolders, workspaceState, walk, scan>>

Fastbuild(i) ==
    /\ run[i].pc = "idle"
    /\ run' = [run EXCEPT ![i] = fastbuildRun(fs, workspaceFolders)]
    /\ UNCHANGED <<fs, workspaceFolders, workspaceState, walk, scan>>

BuildApp(i) ==
    /\ run[i].pc = "idle"
    /\ run' = [run EXCEPT ![i] = buildAppStart(fs, workspaceFolders, workspaceState)]
    /\ UNCHANGED <<fs, workspaceFolders, workspaceState, walk, scan>>

ExtractTerms(i) ==
    /\ run[i].pc = "idle"
    /\ run' = [run EXCEPT ![i] = extractTermsStart(fs, workspaceFolders, workspaceState)]
    /\ UNCHANGED <<fs, workspaceFolders, workspaceState, walk, scan>>

\* showQuickPick resolves with the item the user chose
Select(i, k) ==
    /\ run[i].pc = "picking"
    /\ k \in 1..Len(run[i].items[1])
    /\ run[i].items[1][k].kind # "Separator"
    /\ run' = [run EXCEPT ![i] = pickProjectSelect(run[i], run[i].items[1][k])]
    /\ UNCHANGED <<fs, workspaceFolders, workspaceState, walk, scan>>

\* Cancel with a handler that stores an empty history when nothing is picked
CancelResetsHistory(i) ==
    /\ run[i].pc = "picking"
    /\ run' = [run EXCEPT ![i] = pickProjectCancel(run[i])]
    /\ workspaceState' = update(workspaceState, RECENT_KEY, <<>>)
    /\ UNCHANGED <<fs, workspaceFolders, walk, scan>>

\* showQuickPick resolves with undefined
Cancel(i) ==
    /\ run[i].pc = "picking"
    /\ run' = [run EXCEPT ![i] = pickProjectCancel(run[i])]
    /\ UNCHANGED <<fs, workspaceFolders, workspaceState, walk, scan>>

\* the update of line 124 takes effect, at some time between the call and
\* the resumption of the await
UpdateStored(i) ==
    /\ run[i].pc = "updating"
    /\ workspaceState' = update(workspaceState, RECENT_KEY, run[i].updatedRecent[1])
    /\ run' = [run EXCEPT ![i].pc = "written", ![i].updatedRecent = Undefined]
    /\ UNCHANGED <<fs, workspaceFolders, walk, scan>>

\* Resume without the await of line 124: pickProject returns while the
\* update is in flight
ResumeWithoutAwait(i) ==
    /\ run[i].pc \in {"updating", "written"}
    /\ run' = [run EXCEPT ![i] = resumeRun(run[i])]
    /\ UNCHANGED <<fs, workspaceFolders, workspaceState, walk, scan>>

\* the await of line 124 resumes
Resume(i) ==
    /\ run[i].pc = "written"
    /\ run' = [run EXCEPT ![i] = resumeRun(run[i])]
    /\ UNCHANGED <<fs, workspaceFolders, workspaceState, walk, scan>>

(***************************************************************************)
(* The tree of the commands: a monorepo with three buildable packages and  *)
(* one without a build script, a monorepo without packages, one whose only *)
(* package has no build script, one with two manifests of one name, and a  *)
(* directory outside every monorepo.                                       *)
(***************************************************************************)
Dir(k) == Repo \o <<"packages", <<"a", "b", "c", "d">>[k]>>

CommandTree ==
    (Repo :> RootManifest)
    @@ (Dir(1) :> Manifest(Some(NameA), TRUE))
    @@ (Dir(2) :> Manifest(Some(NameB), TRUE))
    @@ (Dir(3) :> Manifest(Some(NameC), TRUE))
    @@ (Dir(4) :> Manifest(Some(NameD), FALSE))
    @@ (DependencyDir :> Manifest(Some(NameB), TRUE))
    @@ (<<"bare">> :> RootManifest)
    @@ (<<"docs">> :> RootManifest)
    @@ (<<"docs", "d">> :> Manifest(Some(NameD), FALSE))
    @@ (<<"twin">> :> RootManifest)
    @@ (<<"twin", "a1">> :> Manifest(Some(NameA), FALSE))
    @@ (<<"twin", "a2">> :> Manifest(Some(NameA), TRUE))
    @@ (<<"tmp">> :> Malformed)

WorkspaceChoices ==
    {<<>>, <<Dir(1) \o <<"src">>>>, <<<<"bare">>>>, <<<<"docs", "d">>>>, <<<<"twin">>>>,
     <<<<"tmp", "x">>>>}

Init ==
    /\ fs = CommandTree
    /\ workspaceFolders \in WorkspaceChoices
    /\ workspaceState = NoState
    /\ run = [i \in 1..MaxRuns |-> NoRun]
    /\ walk = WalkIdle
    /\ scan = NoScan

\* one more invocation than Init: the handlers are async, and a command
\* can be invoked while another is suspended at its await
InitOverlap ==
    /\ fs = CommandTree
    /\ workspaceFolders \in WorkspaceChoices
    /\ workspaceState = NoState
    /\ run = [i \in 1..(MaxRuns + 1) |-> NoRun]
    /\ walk = WalkIdle
    /\ scan = NoScan

\* the longest list the picker presents for the tree: a header, 3 recent
\* entries, a header, and every manifest of the tree
MaxItems == HistoryCap + 2 + Cardinality(DOMAIN CommandTree)

Next ==
    \E i \in 1..MaxRuns :
        \/ Check(i)
        \/ Fastbuild(i)
        \/ BuildApp(i)
        \/ ExtractTerms(i)
        \/ \E k \in 1..MaxItems : Select(i, k)
        \/ Cancel(i)
        \/ UpdateStored(i)
        \/ Resume(i)

NextOverlap ==
    \E i \in 1..(MaxRuns + 1) :
        \/ Check(i)
        \/ Fastbuild(i)
        \/ BuildApp(i)
        \/ ExtractTerms(i)
        \/ \E k \in 1..MaxItems : Select(i, k)
        \/ Cancel(i)
        \/ UpdateStored(i)
        \/ Resume(i)

Spec == Init /\ [][Next]_vars

SpecOverlap == InitOverlap /\ [][NextOverlap]_vars

(***************************************************************************)
(* Claims about the picker and the commands.                               *)
(***************************************************************************)
\* the entries of H other than X, in their order
Others(X, H) == SelectSeq(H, LAMBDA n : n # X)

\* new is X, then the entries of H other than X in their order, cut to 3
IsMoveToFront(new, X, H) ==
    /\ Len(new) = (IF Len(Others(X, H)) >= 2 THEN 3 ELSE 1 + Len(Others(X, H)))
    /\ new[1] = X
    /\ \A k \in 2..Len(new) : new[k] = Others(X, H)[k - 1]

Selects(i) == run[i].pc = "picking" /\ run'[i].pc = "updating"

Cancels(i) == run[i].pc = "picking" /\ run'[i].pc = "idle"

Stores(i) == run[i].pc = "updating" /\ run'[i].pc = "written"

\* C1: on a selection of X by an invocation that read the history H,
\* pickProject computes, and then stores as the new history, X followed by
\* the entries of H other than X in their order, cut to 3 entries; entries
\* of H that resolve to no project of the list are kept.
C1_MoveToFront ==
    [][\A i \in DOMAIN run :
          /\ Selects(i) =>
                /\ run'[i].updatedRecent # Undefined
                /\ IsMoveToFront(run'[i].updatedRecent[1],
                                 run'[i].picked[1].description[1],
                                 run[i].recentKeys[1])
          /\ Stores(i) => History' = run[i].updatedRecent[1]]_vars

\* build-app, with the unbuildable d and a in the history, stored the pick
\* of c in front of them
C1_Witness ==
    \E i \in DOMAIN run :
        /\ run[i].pc = "written"
        /\ run[i].cmd = "buildApp"
        /\ run[i].picked[1].description = Some(NameC)
        /\ History = <<NameC, NameD, NameA>>

\* C2: a cancelled selection leaves the stored history as it is, makes
\* pickProject return nothing and the command launch no terminal.
C2_CancelNoEffect ==
    [][\A i \in DOMAIN run :
          Cancels(i) =>
              /\ History' = History
              /\ DOMAIN workspaceState' = DOMAIN workspaceState
              /\ run'[i].returned = Undefined
              /\ run'[i].terminals = <<>>]_vars

\* a command that presented the picker ended without a selection while a
\* history was stored
C2_Witness ==
    \E i \in DOMAIN run :
        /\ run[i].pc = "idle"
        /\ run[i].cmd \in {"buildApp", "extractTerms"}
        /\ run[i].projects # Undefined
        /\ Len(run[i].projects[1]) > 0
        /\ run[i].returned = Undefined
        /\ Len(History) = 2

\* C3: from an empty history, the stored history always has at most 3
\* entries and no entry twice.
C3_HistoryBounded ==
    /\ Len(History) <= 3
    /\ \A j, k \in 1..Len(History) : History[j] = History[k] => j = k

\* a fourth project was selected with three in the history
C3_Witness ==
    /\ Len(History) = 3
    /\ History[1] = NameD
    /\ \E i \in DOMAIN run : run[i].pc = "written"

\* all is the projects, each as often as in the list, in shortName order
IsSortedListOf(all, projects) ==
    /\ Len(all) = Len(projects)
    /\ \A p \in {projects[k] : k \in 1..Len(projects)} :
          Cardinality({k \in 1..Len(all) : all[k].description = <<p.packageName>>})
              = Cardinality({k \in 1..Len(projects) : projects[k].packageName = p.packageName})
    /\ \A k \in 1..Len(all) :
          /\ all[k].kind = "Default"
          /\ all[k].label = SubSeq(all[k].description[1], Len(ITSL_PREFIX) + 1,
                                   Len(all[k].description[1]))
    /\ \A k \in 1..(Len(all) - 1) : localeCompare(all[k].label, all[k + 1].label) # 2

\* the history entries that name a project of the list, in history order
Matching(H, projects) ==
    SelectSeq(H, LAMBDA n : \E k \in 1..Len(projects) : projects[k].packageName = n)

\* C6: the presented list is, when a history entry matches a project, a
\* 'Recent' header, the matching history entries in history order, an
\* 'All projects' header and the complete list sorted by shortName; when
\* none matches, the complete sorted list and no header.
C6_Presentation ==
    \A i \in DOMAIN run :
        run[i].pc = "picking" =>
            LET items == run[i].items[1]
                m == Matching(run[i].recentKeys[1], run[i].projects[1])
                n == Len(m)
            IN  IF n = 0
                THEN IsSortedListOf(items, run[i].projects[1])
                ELSE /\ Len(items) = n + 2 + Len(run[i].projects[1])
                     /\ items[1] = [label |-> RecentLabel, description |-> <<>>,
                                    kind |-> "Separator"]
                     /\ \A k \in 1..n :
                           /\ items[1 + k].kind = "Default"
                           /\ items[1 + k].description = <<m[k]>>
                           /\ items[1 + k].label = SubSeq(m[k], Len(ITSL_PREFIX) + 1, Len(m[k]))
                     /\ items[n + 2] = [label |-> AllProjectsLabel, description |-> <<>>,
                                        kind |-> "Separator"]
                     /\ IsSortedListOf(SubSeq(items, n + 3, Len(items)), run[i].projects[1])

\* build-app with the history d, b, of which only b is buildable: 'Recent'
\* holds b alone, and b appears again among all projects
C6_Witness ==
    \E i \in DOMAIN run :
        /\ run[i].pc = "picking"
        /\ run[i].cmd = "buildApp"
        /\ run[i].recentKeys = <<<<NameD, NameB>>>>
        /\ Len(run[i].items[1]) = 6
        /\ run[i].items[1][2].description = <<NameB>>
        /\ run[i].items[1][5].description = <<NameB>>

\* no directory from the workspace folder up carries the marker manifest
RootNotFound ==
    \/ Len(workspaceFolders) = 0
    \/ NearestMarker(fs, workspaceFolders[1]) = Undefined

\* C9: when no root is found, every command ends with the error message
\* and nothing else: no discovery, no picker, no change of the history, no
\* terminal.
C9_ShortCircuit ==
    RootNotFound =>
        /\ History = <<>>
        /\ DOMAIN workspaceState = {}
        /\ \A i \in DOMAIN run :
              /\ run[i].pc = "idle"
              /\ run[i].projects = Undefined
              /\ run[i].items = Undefined
              /\ run[i].returned = Undefined
              /\ run[i].terminals = <<>>
              /\ run[i].cmd # "none" => run[i].messages = <<NotInsideMessage>>

\* fastbuild ran below a malformed manifest, outside every monorepo
C9_Witness ==
    /\ workspaceFolders = <<<<"tmp", "x">>>>
    /\ \E i \in DOMAIN run :
          /\ run[i].cmd = "fastbuild"
          /\ run[i].messages = <<NotInsideMessage>>

\* run i creates a terminal in this step
Launches(i) == run'[i].terminals # <<>> /\ run'[i].terminals # run[i].terminals

\* C10: build-app and extract-terms create a terminal only after the
\* history write of the run's selection has taken effect, at most one per
\* run, and for the project selected in the run, which is one of the list
\* handed to the picker (for build-app, one with a build script).
C10_LaunchAfterWrite ==
    [][\A i \in DOMAIN run :
          /\ Stores(i) => Head(History') = run[i].picked[1].description[1]
          /\ (Launches(i) /\ run'[i].cmd \in {"buildApp", "extractTerms"}) =>
                /\ run[i].pc = "written"
                /\ Len(run'[i].terminals) = 1
                /\ run'[i].cmd = run[i].cmd
                /\ \E k \in 1..Len(run[i].projects[1]) :
                      LET p == run[i].projects[1][k]
                      IN  /\ run[i].picked[1].description = <<p.packageName>>
                          /\ run[i].cmd = "buildApp" => p.hasBuildScript
                          /\ run'[i].returned = <<[packageName |-> p.packageName,
                                                   shortName |-> run[i].picked[1].label]>>
                          /\ run'[i].terminals[1].cwd = run[i].root[1]
                          /\ run'[i].terminals[1].textArg =
                                IF run[i].cmd = "buildApp" THEN p.packageName
                                ELSE run[i].picked[1].label]_vars

\* build-app launched the build of b after b went to the front of the history
C10_Witness ==
    \E i \in DOMAIN run :
        /\ run[i].pc = "idle"
        /\ run[i].cmd = "buildApp"
        /\ run[i].terminals = <<BuildTerminal(Repo, [packageName |-> NameB, shortName |-> <<"b">>])>>
        /\ History = <<NameB, NameA>>

\* C8: every stored history is the move-to-front of the run's selection on
\* the history stored just before the write, so that two overlapping
\* selections end in the history of the two updates applied one after the
\* other in the order of their writes.
C8_NoLostUpdate ==
    [][\A i \in DOMAIN run :
          Stores(i) =>
              IsMoveToFront(History', run[i].picked[1].description[1], History)]_vars

====
